---- MODULE Spec2Model ----
(***************************************************************************)
(* A model of the Loop object of src/source/loop.cpp: the constructor's    *)
(* pre-sizing of the results buffer, CalculateInitialConditions, the       *)
(* EvolveLoop time-stepping loop with its three solvers, SaveResults and   *)
(* PrintToFile.                                                            *)
(*                                                                         *)
(* Arithmetic.  The program computes in IEEE doubles.  Times and step      *)
(* sizes (tau, time, total_time, the C1 coefficients) are modelled in a    *)
(* scaled-down binary floating-point format: a value is a natural number   *)
(* of grid units (One grid units make 1.0), representable when it fits     *)
(* Precision significant bits, and every operation rounds its exact        *)
(* result to the nearest representable value, ties to even, as the         *)
(* hardware does.  The state vector (Pe, Pi, n) is kept in integers of a   *)
(* unit fine enough that the solvers' sums are exact.                      *)
(*                                                                         *)
(* Physics.  pow, log10, exp and the radiation and heating collaborators   *)
(* are not evaluated.  What CalculateDerivs, CalculateC1 and the balance   *)
(* equations of CalculateInitialConditions get from them is drawn from     *)
(* small sets (Balanced, Evaporating, Ratios, Temperatures, Densities, *)
(* ErrorRatios); the arithmetic the source performs on those values is     *)
(* kept.                                                                   *)
(***************************************************************************)
EXTENDS Integers, Sequences, FiniteSets, TLC

\* ------------------------------------------------------------- bounds
\* significant bits of the scaled-down floating-point format (a double has 53)
Precision == 4
\* One = 2^FracBits grid units; the grid unit is the smallest positive value
FracBits == 5
\* largest tau and total_time (grid units) of the fixed-step sweep
MaxTime == 32
\* largest pre-sized estimate N of the fixed-step sweep
MaxN == 5
\* cap on the EvolveLoop row counter i of a fixed-step run
MaxRows == 7
\* cap on the number of RKA4Solver calls of an adaptive run
MaxCalls == 1

\* ------------------------------------------------ floating-point format
RECURSIVE Pow2(_)
Pow2(k) == IF k <= 0 THEN 1 ELSE 2 * Pow2(k - 1)

One == Pow2(FracBits)

\* +infinity (pow(0.0, -0.2)); larger than every finite value of the model
Inf == Pow2(20)

RECURSIVE UlpFrom(_, _, _)
UlpFrom(n, d, u) ==
  IF 2 * u * Pow2(Precision - 1) * d <= n THEN UlpFrom(n, d, 2 * u) ELSE u

\* spacing of the representable values around n/d
Ulp(n, d) == UlpFrom(n, d, 1)

\* n/d (n >= 0, d > 0) rounded to the nearest representable value, ties to even
Fl(n, d) ==
  LET u == Ulp(n, d)
      q == n \div (d * u)
      r == n - q * d * u
  IN  IF 2 * r < d * u THEN q * u
      ELSE IF 2 * r > d * u THEN (q + 1) * u
      ELSE IF q % 2 = 0 THEN q * u ELSE (q + 1) * u

FAdd(a, b) == IF a = Inf \/ b = Inf THEN Inf ELSE Fl(a + b, 1)
FSub(a, b) == Fl(a - b, 1)
FMul(a, b) == IF a = Inf \/ b = Inf THEN Inf ELSE Fl(a * b, One)
FDiv(a, b) == IF a = Inf THEN Inf ELSE Fl(a * One, b)
FMax(a, b) == IF a >= b THEN a ELSE b
FMin(a, b) == IF a <= b THEN a ELSE b

\* int(ceil(x)) of a non-negative value
CeilInt(x) == (x + One - 1) \div One

Abs(x) == IF x < 0 THEN -x ELSE x

\* ------------------------------------------------------------ the state
VARIABLES
  pc,               \* position: constructed, ic, ic_break, ready, evolve, rka4, evolved, printed
  parameters,       \* total_time, tau, c1_cond0, c1_rad0, solver (read from the configuration)
  heat_off,         \* the heater: heating is on up to this time and off after it
  physics,          \* what the un-evaluated physics can produce in this run: the closure
                    \* terms of CalculateDerivs, the temperatures, densities and density
                    \* ratios of CalculateInitialConditions
  N,                \* estimated results array length
  results,          \* the seven results sequences
  state,            \* __state: pressure_e, pressure_i, density
  excess,           \* number of pre-sized entries PrintToFile removes
  ic_i, temperature, density, temperature_old, density_old, c1, density_ratio,
                    \* locals of CalculateInitialConditions and of its CalculateC1 call
  i, time, tau,     \* locals of EvolveLoop
  rk_i, rk_tau, old_tau, small_step, error_ratio,
                    \* locals of RKA4Solver (rk_tau is its by-value tau)
  warned,           \* the "did not converge" warning has been written to stdout
  tau_in,           \* history: the step size the current or last RKA4Solver call was given
  covered,          \* history: per recorded row, the interval its state was integrated over
  derivs_ok         \* history: every CalculateDerivs call so far got Pe > 0, Pi > 0, n > 0

vars == <<pc, parameters, heat_off, physics, N, results, state, excess,
          ic_i, temperature, density, temperature_old, density_old, c1, density_ratio,
          i, time, tau, rk_i, rk_tau, old_tau, small_step, error_ratio,
          warned, tau_in, covered, derivs_ok>>

\* ------------------------------------------------------ program constants
i_max == 100
max_try == 100
\* tol = 1e-2, kept as its reciprocal
tol_inverse == 100
LARGEST_DOUBLE == Inf
c1_eqm0 == 2 * One
safety_1 == Fl(9 * One, 10)
safety_2 == Fl(11 * One, 10)
safety_3 == 4 * One

ValidSolvers == {"euler", "rk4", "rka4"}

\* ------------------------------------------------------------- heater
\* heating rate while the heater is on
HeatRate == 8

\* heater->Get_Heating(time): a rate >= 0
Get_Heating(t) == IF t <= heat_off THEN HeatRate ELSE 0

\* heat*heater->partition and heat*(1.0 - heater->partition), with partition = 1/2
HeatElectron(t) == Get_Heating(t) \div 2
HeatIon(t) == Get_Heating(t) - HeatElectron(t)

\* -------------------------------------------------- closure coefficient C1
\* the branch of CalculateC1 taken for density_ratio < 1.0
C1Conduction(ratio, c1_cond0) ==
  FDiv(FAdd(FMul(2 * One, c1_eqm0),
            FMul(c1_cond0, FSub(FDiv(One, ratio), One))),
       FAdd(One, FDiv(One, ratio)))

\* the branch of CalculateC1 taken otherwise
\* faulty variant of C1Radiation: the equilibrium term is not doubled
C1RadiationEquilibriumOnce(ratio, c1_rad0) ==
  FDiv(FAdd(c1_eqm0, FMul(c1_rad0, FSub(ratio, One))), FAdd(One, ratio))

C1Radiation(ratio, c1_rad0) ==
  FDiv(FAdd(FMul(2 * One, c1_eqm0),
            FMul(c1_rad0, FSub(ratio, One))),
       FAdd(One, ratio))

\* CalculateC1 from density_ratio on, with the loss and gravity corrections off (1.0)
CalculateC1(ratio) ==
  IF ratio < One THEN C1Conduction(ratio, parameters.c1_cond0)
  ELSE C1Radiation(ratio, parameters.c1_rad0)

\* values of pow(density,2)/density_eqm_2
Ratios == {One \div 2, One - One \div Pow2(Precision), One, One + One \div Pow2(Precision - 1), 2 * One}

\* values of c1_cond0 and c1_rad0 the model draws
C1Coefficients == {0, Fl(6 * One, 10), 2 * One, 6 * One}

\* ------------------------------------------------------ initial conditions
\* temperatures and densities the balance equations of lines 110-112 can produce
Temperatures == {100, 101, 150}
Densities == {2, 3}
\* a run whose balance equations give the same pair on every pass
SettledTemperatures == {100}
SettledDensities == {2}

\* fabs(x - x_old)/x < tol
RelativeChangeBelowTol(x, x_old) == tol_inverse * Abs(x - x_old) < x

\* faulty variant of Converged: fmin instead of fmax, one small change is enough
ConvergedEither(T, T_old, n, n_old) ==
  RelativeChangeBelowTol(n, n_old) \/ RelativeChangeBelowTol(T, T_old)

\* fmax(error_density,error_temperature) < tol
Converged(T, T_old, n, n_old) ==
  RelativeChangeBelowTol(n, n_old) /\ RelativeChangeBelowTol(T, T_old)

\* the state set at lines 125-128, with BOLTZMANN_CONSTANT = 1 and
\* boltzmann_correction = 1 (helium_to_hydrogen_ratio = 0)
SeedState(T, n) == <<n * T, n * T, n>>

\* ------------------------------------------------------------- results
\* a quotient p/q kept as the fraction <<p, q>> (q = 0: an infinity or a NaN)
Quot(p, q) == <<p, q>>

Zeros(n) == [k \in 1..n |-> 0]

\* results.*.resize(N)
ReserveResults(n) ==
  [time |-> Zeros(n), heat |-> Zeros(n), pressure_e |-> Zeros(n),
   pressure_i |-> Zeros(n), temperature_e |-> [k \in 1..n |-> Quot(0, 1)],
   temperature_i |-> [k \in 1..n |-> Quot(0, 1)], density |-> Zeros(n)]

\* faulty variant of SaveResults: the push_back branch leaves out results.heat
SaveResultsWithoutHeat(res, st, idx, t) ==
  LET heat == Get_Heating(t)
      temperature_e == Quot(st[1], st[3])
      temperature_i == Quot(st[2], st[3])
  IN  IF idx >= N
      THEN [time |-> Append(res.time, t),
            heat |-> res.heat,
            temperature_e |-> Append(res.temperature_e, temperature_e),
            temperature_i |-> Append(res.temperature_i, temperature_i),
            pressure_e |-> Append(res.pressure_e, st[1]),
            pressure_i |-> Append(res.pressure_i, st[2]),
            density |-> Append(res.density, st[3])]
      ELSE [time |-> [res.time EXCEPT ![idx + 1] = t],
            heat |-> [res.heat EXCEPT ![idx + 1] = heat],
            temperature_e |-> [res.temperature_e EXCEPT ![idx + 1] = temperature_e],
            temperature_i |-> [res.temperature_i EXCEPT ![idx + 1] = temperature_i],
            pressure_e |-> [res.pressure_e EXCEPT ![idx + 1] = st[1]],
            pressure_i |-> [res.pressure_i EXCEPT ![idx + 1] = st[2]],
            density |-> [res.density EXCEPT ![idx + 1] = st[3]]]

SaveResults(res, st, idx, t) ==
  LET heat == Get_Heating(t)
      temperature_e == Quot(st[1], st[3])
      temperature_i == Quot(st[2], st[3])
  IN  IF idx >= N
      THEN [time |-> Append(res.time, t),
            heat |-> Append(res.heat, heat),
            temperature_e |-> Append(res.temperature_e, temperature_e),
            temperature_i |-> Append(res.temperature_i, temperature_i),
            pressure_e |-> Append(res.pressure_e, st[1]),
            pressure_i |-> Append(res.pressure_i, st[2]),
            density |-> Append(res.density, st[3])]
      ELSE [time |-> [res.time EXCEPT ![idx + 1] = t],
            heat |-> [res.heat EXCEPT ![idx + 1] = heat],
            temperature_e |-> [res.temperature_e EXCEPT ![idx + 1] = temperature_e],
            temperature_i |-> [res.temperature_i EXCEPT ![idx + 1] = temperature_i],
            pressure_e |-> [res.pressure_e EXCEPT ![idx + 1] = st[1]],
            pressure_i |-> [res.pressure_i EXCEPT ![idx + 1] = st[2]],
            density |-> [res.density EXCEPT ![idx + 1] = st[3]]]

\* vector::pop_back
PopBack(s) == SubSeq(s, 1, Len(s) - 1)

RECURSIVE Trim(_, _)
\* the loop of lines 189-198 on one sequence
Trim(s, k) == IF k <= 0 THEN s ELSE Trim(PopBack(s), k - 1)

\* lines 178-182
\* faulty variant of Excess: one unwritten row too few is counted
ExcessOffByOne(n, rows) == IF n - rows - 1 < 0 THEN 0 ELSE n - rows - 1

Excess(n, rows) == IF n - rows < 0 THEN 0 ELSE n - rows

\* ------------------------------------------------------------- derivatives
Positive(st) == st[1] > 0 /\ st[2] > 0 /\ st[3] > 0

\* The closure terms of lines 223-235, in units with GAMMA_MINUS_ONE = loop_length = 1:
\* psi = psi_tr + psi_c, loss = R_c*(1.0 + c1), flux = dn_dt.
\* equilibrium while the heater is on, radiative cooling once it is off
Balanced == [psi |-> HeatRate - HeatRate \div 2, loss |-> HeatRate, flux |-> 0]
\* evaporation: little radiation, an upflow
Evaporating == [psi |-> HeatRate - HeatRate \div 2, loss |-> 0, flux |-> 1]

\* lines 237-243: the set of derivative vectors the closure allows at (state, time)
CalculateDerivs(st, t) ==
  { <<c.psi - c.loss + HeatElectron(t), HeatIon(t) - c.psi, c.flux>> : c \in physics.terms }

\* what a solver call yields: the new state, and whether every CalculateDerivs call
\* it made got a strictly positive state
Outcome(st, ok) == [new |-> st, ok |-> ok]

EulerSolver(st, t, dt) ==
  { Outcome(<<st[1] + d[1] * dt, st[2] + d[2] * dt, st[3] + d[3] * dt>>, Positive(st))
      : d \in CalculateDerivs(st, t) }

\* state + h*f, component by component
Stage(st, h, f) == <<st[1] + h * f[1], st[2] + h * f[2], st[3] + h * f[3]>>

\* f1 + 2.0*f2 + 2.0*f3 + f4
Weighted(f1, f2, f3, f4) ==
  <<f1[1] + 2 * f2[1] + 2 * f3[1] + f4[1],
    f1[2] + 2 * f2[2] + 2 * f3[2] + f4[2],
    f1[3] + 2 * f2[3] + 2 * f3[3] + f4[3]>>

RK4Solver(st, t, dt) ==
  LET half == FDiv(dt, 2 * One)
      sixth == FDiv(dt, 6 * One)
      t_half == FAdd(t, half)
      t_full == FAdd(t, dt)
  IN  UNION { UNION { UNION {
        { Outcome(Stage(st, sixth, Weighted(f1, f2, f3, f4)),
                  /\ Positive(st)
                  /\ Positive(Stage(st, half, f1))
                  /\ Positive(Stage(st, half, f2))
                  /\ Positive(Stage(st, dt, f3)))
            : f4 \in CalculateDerivs(Stage(st, dt, f3), t_full) }
          : f3 \in CalculateDerivs(Stage(st, half, f2), t_half) }
          : f2 \in CalculateDerivs(Stage(st, half, f1), t_half) }
          : f1 \in CalculateDerivs(st, t) }

\* RK4Solver(RK4Solver(state,time,tau*0.5),time+tau*0.5,tau*0.5)
SmallStep(st, t, dt) ==
  LET half == FMul(dt, One \div 2)
  IN  UNION { { Outcome(b.new, a.ok /\ b.ok) : b \in RK4Solver(a.new, FAdd(t, half), half) }
                : a \in RK4Solver(st, t, half) }

\* RK4Solver(state,time,tau)
BigStep(st, t, dt) == RK4Solver(st, t, dt)

\* ------------------------------------------------------ adaptive step size
\* error ratios the model draws: 0, 1/32, the double just below 1, 1, 32
ErrorRatios == {0, One \div 32, One - One \div Pow2(Precision), One, 32 * One}

\* pow(error_ratio,-1.0/5.0), correctly rounded, on ErrorRatios
PowMinusFifth(e) ==
  IF e = 0 THEN Inf
  ELSE IF e = One \div 32 THEN 2 * One
  ELSE IF e = 32 * One THEN One \div 2
  ELSE One

\* lines 456-458: the step size estimated from one attempt
EstimateTau(old, e) ==
  FMax(FMul(FMul(safety_1, old), PowMinusFifth(e)), FDiv(old, safety_2))

\* line 462 and line 475: the cap on the returned step size
\* faulty variant of CapTau: the fmin with safety_3*old_tau is left out
CapTauMissing(new, old) == new

CapTau(new, old) == FMin(new, FMul(safety_3, old))

\* --------------------------------------------------------- configurations
\* the representable values up to MaxTime
Floats == {x \in 1..MaxTime : Fl(x, 1) = x}

\* N = int(ceil(parameters.total_time/parameters.tau))
\* faulty variant of EstimateN: one row more than the ceiling
EstimateNPlusOne(total_time, step) == CeilInt(FDiv(total_time, step)) + 1

EstimateN(total_time, step) == CeilInt(FDiv(total_time, step))

Config(solver, step, total_time, cond0, rad0) ==
  [solver |-> solver, tau |-> step, total_time |-> total_time,
   c1_cond0 |-> cond0, c1_rad0 |-> rad0]

Settled == [terms |-> {Balanced}, temperatures |-> SettledTemperatures,
            densities |-> SettledDensities, ratios |-> {One}]

\* the coefficients of the configuration file shipped with the program
DefaultCond0 == 6 * One
DefaultRad0 == Fl(6 * One, 10)

\* fixed-step runs over every representable tau and total_time, steady heating
InitSweep ==
  /\ parameters \in { Config(s, ab[1], ab[2], DefaultCond0, DefaultRad0) :
                        s \in {"euler", "rk4"},
                        ab \in {x \in Floats \X Floats : EstimateN(x[2], x[1]) \in 1..MaxN} }
  /\ heat_off = Inf
  /\ physics = Settled

\* runs of every solver name over one second steps, with the heater on throughout
\* or switched off after t = 0, and every value the initial-condition iteration
\* and the closure terms can produce
InitPhysics ==
  /\ parameters \in { Config(s, One, 4 * One, DefaultCond0, DefaultRad0) :
                        s \in {"euler", "rk4", "bogus"} }
  /\ heat_off \in {0, Inf}
  /\ physics \in { [terms |-> ts, temperatures |-> Temperatures,
                    densities |-> Densities, ratios |-> {One}] :
                     ts \in {{Balanced}, {Balanced, Evaporating}} }

\* runs over the C1 coefficients and density ratios
InitCoefficients ==
  /\ parameters \in { Config("euler", One, 2 * One, c, r) :
                        c \in C1Coefficients, r \in C1Coefficients }
  /\ heat_off = Inf
  /\ physics = [terms |-> {Balanced}, temperatures |-> SettledTemperatures,
                densities |-> SettledDensities, ratios |-> Ratios]

\* adaptive runs
InitAdaptive ==
  /\ parameters \in { Config("rka4", a, 6 * One, DefaultCond0, DefaultRad0) :
                        a \in {One \div 4, 2 * One} }
  /\ heat_off = 0
  /\ physics = Settled

\* the state the constructor leaves
Constructed ==
  /\ pc = "constructed"
  /\ N = EstimateN(parameters.total_time, parameters.tau)
  /\ results = ReserveResults(N)
  /\ state = <<>>
  /\ excess = 0
  /\ ic_i = 0 /\ temperature = 0 /\ density = 0
  /\ temperature_old = 0 /\ density_old = 0 /\ c1 = 0 /\ density_ratio = 0
  /\ i = 0 /\ time = 0 /\ tau = 0
  /\ rk_i = 0 /\ rk_tau = 0 /\ old_tau = 0 /\ small_step = <<>> /\ error_ratio = 0
  /\ warned = FALSE
  /\ tau_in = 0
  /\ covered = <<>>
  /\ derivs_ok = TRUE

Init == (InitSweep \/ InitPhysics \/ InitCoefficients \/ InitAdaptive) /\ Constructed

\* -------------------------------------------- CalculateInitialConditions
\* lines 92-102
CalculateInitialConditions ==
  /\ pc = "constructed"
  /\ pc' = "ic"
  /\ ic_i' = 0
  /\ temperature_old' = LARGEST_DOUBLE
  /\ density_old' = LARGEST_DOUBLE
  /\ c1' = 2 * One
  /\ UNCHANGED <<parameters, heat_off, physics, N, results, state, excess,
                 temperature, density, density_ratio, i, time, tau,
                 rk_i, rk_tau, old_tau, small_step, error_ratio,
                 warned, tau_in, covered, derivs_ok>>

\* one pass of the loop of lines 104-122
InitialConditionsPass ==
  /\ pc = "ic"
  /\ ic_i < i_max
  /\ \E ratio \in physics.ratios, T \in physics.temperatures, n \in physics.densities :
       /\ density_ratio' = IF ic_i > 0 THEN ratio ELSE density_ratio
       /\ c1' = IF ic_i > 0 THEN CalculateC1(ratio) ELSE c1
       /\ temperature' = T
       /\ density' = n
       /\ IF Converged(T, temperature_old, n, density_old)
          THEN /\ pc' = "ic_break"
               /\ UNCHANGED <<ic_i, temperature_old, density_old>>
          ELSE /\ pc' = "ic"
               /\ ic_i' = ic_i + 1
               /\ temperature_old' = T
               /\ density_old' = n
  /\ UNCHANGED <<parameters, heat_off, physics, N, results, state, excess,
                 i, time, tau, rk_i, rk_tau, old_tau, small_step, error_ratio,
                 warned, tau_in, covered, derivs_ok>>

\* the loop has ended, by break or with i = i_max
InitialConditionsLoopEnded == pc = "ic_break" \/ (pc = "ic" /\ ic_i >= i_max)

\* lines 124-131; the loop's locals are gone when the function returns
InitialConditionsSet ==
  /\ InitialConditionsLoopEnded
  /\ pc' = "ready"
  /\ state' = SeedState(temperature, density)
  /\ results' = SaveResults(results, state', 0, 0)
  /\ ic_i' = 0 /\ temperature_old' = 0 /\ density_old' = 0
  /\ c1' = 0 /\ density_ratio' = 0
  /\ UNCHANGED <<parameters, heat_off, physics, N, excess, temperature, density,
                 i, time, tau, rk_i, rk_tau, old_tau, small_step,
                 error_ratio, warned, tau_in, covered, derivs_ok>>

\* ------------------------------------------------------------ EvolveLoop
\* lines 136-138
EvolveLoop ==
  /\ pc = "ready"
  /\ pc' = "evolve"
  /\ i' = 1
  /\ time' = parameters.tau
  /\ tau' = parameters.tau
  /\ UNCHANGED <<parameters, heat_off, physics, N, results, state, excess,
                 ic_i, temperature, density, temperature_old, density_old, c1,
                 density_ratio, rk_i, rk_tau, old_tau, small_step, error_ratio,
                 warned, tau_in, covered, derivs_ok>>

\* lines 143-150: the fixed-step branches; no branch is taken for any other name
FixedStep(solver, st, t, dt) ==
  IF solver = "euler" THEN EulerSolver(st, t, dt)
  ELSE IF solver = "rk4" THEN RK4Solver(st, t, dt)
  ELSE {Outcome(st, TRUE)}

\* the interval a fixed-step branch integrates over
FixedCovered(solver, dt) == IF solver \in {"euler", "rk4"} THEN dt ELSE 0

\* one iteration of the loop of lines 140-175 when the solver is not "rka4"
EvolveStep ==
  /\ pc = "evolve"
  /\ time < parameters.total_time
  /\ parameters.solver # "rka4"
  /\ i < MaxRows
  /\ \E out \in FixedStep(parameters.solver, state, time, tau) :
       /\ state' = out.new
       /\ derivs_ok' = (derivs_ok /\ out.ok)
  /\ results' = SaveResults(results, state', i, time)
  /\ covered' = Append(covered, FixedCovered(parameters.solver, tau))
  /\ time' = FAdd(time, tau)
  /\ i' = i + 1
  /\ UNCHANGED <<pc, parameters, heat_off, physics, N, excess,
                 ic_i, temperature, density, temperature_old, density_old, c1,
                 density_ratio, tau, rk_i, rk_tau, old_tau, small_step, error_ratio,
                 warned, tau_in>>

\* an iteration with solver "rka4" calls RKA4Solver: lines 432-434
RKA4SolverCall ==
  /\ pc = "evolve"
  /\ time < parameters.total_time
  /\ parameters.solver = "rka4"
  /\ i <= MaxCalls
  /\ pc' = "rka4"
  /\ rk_i' = 0
  /\ rk_tau' = tau
  /\ error_ratio' = LARGEST_DOUBLE
  /\ small_step' = <<>>
  /\ tau_in' = tau
  /\ UNCHANGED <<parameters, heat_off, physics, N, results, state, excess,
                 ic_i, temperature, density, temperature_old, density_old, c1,
                 density_ratio, i, time, tau, old_tau, warned, covered, derivs_ok>>

\* lines 155-157 and 171-174: EvolveLoop takes the returned vector apart, saves the
\* row and advances time and counter; the solver's locals are gone
RKA4Return(returned_state, returned_tau, integrated) ==
  /\ pc' = "evolve"
  /\ rk_i' = 0 /\ rk_tau' = 0 /\ old_tau' = 0 /\ small_step' = <<>>
  /\ tau' = returned_tau
  /\ state' = returned_state
  /\ results' = SaveResults(results, returned_state, i, time)
  /\ covered' = Append(covered, integrated)
  /\ time' = FAdd(time, returned_tau)
  /\ i' = i + 1

\* one attempt of the loop of lines 440-466
RKA4Attempt ==
  /\ pc = "rka4"
  /\ rk_i < max_try
  /\ \E s \in SmallStep(state, time, rk_tau), b \in BigStep(state, time, rk_tau),
        e \in ErrorRatios :
       /\ derivs_ok' = (derivs_ok /\ s.ok /\ b.ok)
       /\ error_ratio' = e
       /\ IF e < One
          THEN RKA4Return(s.new, CapTau(EstimateTau(rk_tau, e), rk_tau), rk_tau)
          ELSE /\ small_step' = s.new
               /\ old_tau' = rk_tau
               /\ rk_tau' = EstimateTau(rk_tau, e)
               /\ rk_i' = rk_i + 1
               /\ UNCHANGED <<pc, tau, state, results, covered, time, i>>
  /\ UNCHANGED <<parameters, heat_off, physics, N, excess,
                 ic_i, temperature, density, temperature_old, density_old, c1,
                 density_ratio, warned, tau_in>>

\* lines 468-480: no attempt converged
RKA4GiveUp ==
  /\ pc = "rka4"
  /\ rk_i = max_try
  /\ warned' = TRUE
  /\ RKA4Return(small_step, CapTau(rk_tau, old_tau), old_tau)
  /\ UNCHANGED <<parameters, heat_off, physics, N, excess,
                 ic_i, temperature, density, temperature_old, density_old, c1,
                 density_ratio, error_ratio, tau_in, derivs_ok>>

\* lines 177-182: the loop condition fails
EvolveLoopEnd ==
  /\ pc = "evolve"
  /\ ~(time < parameters.total_time)
  /\ pc' = "evolved"
  /\ excess' = Excess(N, i)
  /\ UNCHANGED <<parameters, heat_off, physics, N, results, state,
                 ic_i, temperature, density, temperature_old, density_old, c1,
                 density_ratio, i, time, tau, rk_i, rk_tau, old_tau, small_step,
                 error_ratio, warned, tau_in, covered, derivs_ok>>

\* ------------------------------------------------------------ PrintToFile
\* lines 189-198 (the file written at lines 200-206 holds results as left here)
PrintToFile ==
  /\ pc = "evolved"
  /\ pc' = "printed"
  /\ results' = [time |-> Trim(results.time, excess),
                 temperature_e |-> Trim(results.temperature_e, excess),
                 temperature_i |-> Trim(results.temperature_i, excess),
                 density |-> Trim(results.density, excess),
                 pressure_e |-> Trim(results.pressure_e, excess),
                 pressure_i |-> Trim(results.pressure_i, excess),
                 heat |-> Trim(results.heat, excess)]
  /\ UNCHANGED <<parameters, heat_off, physics, N, state, excess,
                 ic_i, temperature, density, temperature_old, density_old, c1,
                 density_ratio, i, time, tau, rk_i, rk_tau, old_tau, small_step,
                 error_ratio, warned, tau_in, covered, derivs_ok>>

Next ==
  \/ CalculateInitialConditions
  \/ InitialConditionsPass
  \/ InitialConditionsSet
  \/ EvolveLoop
  \/ EvolveStep
  \/ RKA4SolverCall
  \/ RKA4Attempt
  \/ RKA4GiveUp
  \/ EvolveLoopEnd
  \/ PrintToFile

Spec == Init /\ [][Next]_vars

\* ------------------------------------------------------------ properties
Columns == {"time", "heat", "temperature_e", "temperature_i",
            "pressure_e", "pressure_i", "density"}

FixedStepRun == parameters.solver \in {"euler", "rk4"}

\* the rows recorded so far: row 0 and one per completed loop iteration
RowsRecorded == Len(covered) + 1

\* the division at line 43 and every sum time += tau of the run are exact
ExactRun ==
  /\ FDiv(parameters.total_time, parameters.tau) * parameters.tau
       = parameters.total_time * One
  /\ \A k \in 1..N : Fl(k * parameters.tau, 1) = k * parameters.tau

\* C1 as stated: a fixed-step run ends with exactly N rows, row k at time k*tau,
\* in time order and all before total_time.
C1_RowsAreEstimate ==
  (pc = "printed" /\ FixedStepRun) =>
    /\ Len(results.time) = N
    /\ \A k \in 1..Len(results.time) :
         /\ results.time[k] = (k - 1) * parameters.tau
         /\ results.time[k] < parameters.total_time
         /\ k > 1 => results.time[k - 1] <= results.time[k]

\* C1 amended: a fixed-step run ends with one row per loop pass plus row 0; row 0 is
\* at time 0, row 1 at tau, every further row at the rounded sum of its predecessor
\* and tau; times never decrease and stay below total_time; and the row count is N
\* with row k at k*tau whenever the division and the sums are exact.
C1_RowsFollowAccumulatedTime ==
  (pc = "printed" /\ FixedStepRun) =>
    /\ Len(results.time) = RowsRecorded
    /\ results.time[1] = 0
    /\ \A k \in 2..Len(results.time) :
         /\ results.time[k] = FAdd(results.time[k - 1], parameters.tau)
         /\ results.time[k - 1] <= results.time[k]
         /\ results.time[k] < parameters.total_time
    /\ ~(FAdd(results.time[Len(results.time)], parameters.tau) < parameters.total_time)
    /\ ExactRun =>
         /\ Len(results.time) = N
         /\ \A k \in 1..N : results.time[k] = (k - 1) * parameters.tau

\* an exact fixed-step run of at least three rows has been printed
C1_Witness ==
  /\ pc = "printed" /\ FixedStepRun /\ ExactRun
  /\ N >= 3 /\ Len(results.time) = N

AdaptiveRun == parameters.solver = "rka4"

\* the last RKA4Solver call has returned through its accepting branch
AcceptedReturn ==
  /\ AdaptiveRun /\ pc \in {"evolve", "evolved", "printed"}
  /\ Len(covered) >= 1 /\ error_ratio < One

\* the step size of the attempt whose small-step result the last call returned
AcceptedTau == covered[Len(covered)]

\* C2 as stated: an accepted RKA4 step returns a step size between 1/1.1 and 4 times
\* the step size the call was given, however many attempts were rejected.
C2_BoundedByCallInput ==
  AcceptedReturn =>
    /\ FDiv(tau_in, safety_2) <= tau
    /\ tau <= FMul(safety_3, tau_in)

\* C2 amended: an accepted RKA4 step returns a step size between 1/1.1 and 4 times the
\* step size of the accepted attempt, which is at most the step size the call was
\* given; against the call's own step size only the upper bound of 4 times holds.
C2_BoundedByAcceptedAttempt ==
  AcceptedReturn =>
    /\ FDiv(AcceptedTau, safety_2) <= tau
    /\ tau <= FMul(safety_3, AcceptedTau)
    /\ AcceptedTau <= tau_in
    /\ tau <= FMul(safety_3, tau_in)

\* a call has accepted an attempt after rejecting at least one
C2_Witness ==
  /\ AcceptedReturn /\ AcceptedTau < tau_in
  /\ tau < FMul(safety_3, AcceptedTau)

\* C3: RKA4Solver makes at most 100 attempts, returns a positive step size whether it
\* accepts or gives up, and the caller's time therefore advances on every iteration.
C3_AttemptsBoundedAndTimeAdvances ==
  /\ rk_i <= max_try
  /\ (AdaptiveRun /\ pc = "evolve" /\ Len(covered) >= 1) =>
       /\ tau > 0
       /\ time > results.time[Len(covered) + 1]

\* the part of C3 that the code keeps: the attempt bound, acceptance on the first
\* error ratio below one, the warning only after 100 rejections, a positive step size
C3_AttemptsBoundedAndTauPositive ==
  /\ rk_i <= max_try
  /\ warned => AdaptiveRun
  /\ (AdaptiveRun /\ pc = "evolve" /\ Len(covered) >= 1) => tau > 0
  /\ (pc = "rka4" /\ rk_i > 0) => ~(error_ratio < One)

\* C4: after EvolveLoop and PrintToFile every results sequence has exactly as many
\* rows as were recorded, the last of them the final state, whether the run recorded
\* fewer or more rows than N.
C4_PrintedLengthIsRowsRecorded ==
  pc = "printed" =>
    /\ \A f \in Columns : Len(results[f]) = RowsRecorded
    /\ RowsRecorded = i
    /\ results.pressure_e[RowsRecorded] = state[1]
    /\ results.pressure_i[RowsRecorded] = state[2]
    /\ results.density[RowsRecorded] = state[3]

\* a run that recorded fewer rows than N has been trimmed and printed
C4_Witness ==
  /\ pc = "printed" /\ excess > 0
  /\ Len(results.time) = N - excess /\ Len(covered) >= 1

\* a run that recorded more rows than N has been printed
C4_WitnessGrown == pc = "printed" /\ excess = 0 /\ Len(results.time) > N

\* C5: the seven results sequences have the same length in every state, after the
\* constructor, after every SaveResults and after PrintToFile.
C5_ColumnsEqualLength ==
  \A f \in Columns : Len(results[f]) = Len(results.time)

\* a row has been appended beyond the reserved N
C5_Witness ==
  /\ pc \in {"evolve", "evolved"} /\ Len(results.time) > N
  /\ Len(results.density) = Len(results.time)

\* C6: a solver name outside euler, rk4, rka4 is rejected; the loop never records a
\* row for it.
C6_InvalidSolverRecordsNothing ==
  parameters.solver \notin ValidSolvers => Len(covered) = 0

\* C7: the electron pressure, ion pressure and density stay positive throughout a
\* run and CalculateDerivs is never given a non-positive one.
C7_StateStaysPositive ==
  /\ derivs_ok
  /\ Len(state) = 3 => Positive(state)

\* C10: in an adaptive run the time between two consecutive rows is the interval
\* the solver integrated to get from one to the other.
C10_RowSpacingIsIntegratedInterval ==
  AdaptiveRun =>
    \A k \in 1..Len(covered) :
      results.time[k + 1] = FAdd(results.time[k], covered[k])

\* C8: at density_ratio = 1 the conduction branch and the radiation branch of
\* CalculateC1 both give the equilibrium value 2.0, whatever the two coefficients,
\* and so does CalculateC1 when the initial-conditions loop calls it there.
C8_BranchesAgreeAtBoundary ==
  /\ \A c \in C1Coefficients :
       /\ C1Conduction(One, c) = c1_eqm0
       /\ C1Radiation(One, c) = c1_eqm0
  /\ (pc \in {"ic", "ic_break"} /\ density_ratio = One) => c1 = c1_eqm0

\* CalculateC1 has been called at the boundary with non-default coefficients
C8_Witness ==
  /\ pc \in {"ic", "ic_break"} /\ density_ratio = One /\ c1 = c1_eqm0
  /\ parameters.c1_rad0 # DefaultRad0 /\ parameters.c1_cond0 # DefaultCond0

\* CalculateC1 has been called on either side of the boundary
C8_WitnessConduction ==
  pc \in {"ic", "ic_break"} /\ density_ratio > 0 /\ density_ratio < One
C8_WitnessRadiation == pc \in {"ic", "ic_break"} /\ density_ratio > One

BothBelowTol(T, T_old, n, n_old) ==
  /\ tol_inverse * Abs(T - T_old) < T
  /\ tol_inverse * Abs(n - n_old) < n

C9_Bounded ==
  /\ ic_i <= i_max
  /\ pc = "ic_break" =>
       /\ ic_i >= 1
       /\ BothBelowTol(temperature, temperature_old, density, density_old)
  /\ pc = "ready" =>
       /\ state = SeedState(temperature, density)
       /\ results.time[1] = 0
       /\ results.pressure_e[1] = state[1]
       /\ results.pressure_i[1] = state[2]
       /\ results.density[1] = state[3]

C9_Pass ==
  /\ (pc = "ic" /\ pc' = "ic") =>
       /\ ic_i' = ic_i + 1
       /\ ~BothBelowTol(temperature', temperature_old, density', density_old)
  /\ (pc = "ic" /\ pc' = "ic_break") =>
       BothBelowTol(temperature', temperature_old, density', density_old)
  /\ (pc # "ready" /\ pc' = "ready") =>
       /\ pc = "ic_break" \/ ic_i = i_max
       /\ state' = SeedState(temperature, density)

\* C9: CalculateInitialConditions makes at most 100 passes, never stops on the first
\* one, stops at the first pass whose relative changes of temperature and density are
\* both below 1e-2, and then always sets the state from the last temperature and
\* density and records it as row 0 at time 0.
C9_InitialConditionsTerminate == [] C9_Bounded /\ [][C9_Pass]_vars

\* the initial state has been set and recorded as row 0
C9_Witness ==
  /\ pc = "ready" /\ Positive(state)
  /\ results.time[1] = 0 /\ results.density[1] = state[3]

\* the loop has stopped on convergence after several passes, and on its pass budget
C9_WitnessConverged == pc = "ic_break" /\ ic_i >= 2
C9_WitnessExhausted == pc = "ic" /\ ic_i = i_max

====
